---- MODULE Spec2Model ----
(***************************************************************************)
(* Nebula: interactive particle-morphing engine.                           *)
(*                                                                         *)
(* The model follows the React application of src/components/UIOverlay.tsx *)
(* (component App), the particle engine of src/unnamed/part_000 (component *)
(* Nebula3D) and the hand tracker of src/services/handTracker.ts.          *)
(*                                                                         *)
(* Lengths are integers in hundredths of a world unit (100 = 1.0),         *)
(* normalized screen and hand coordinates and the audio intensity are in   *)
(* thousandths (1000 = 1.0).  A float store rounds to the nearest          *)
(* representable value; here that is the nearest integer (DivRound).       *)
(***************************************************************************)
EXTENDS Integers, Sequences, FiniteSets, TLC

VARIABLES
    \* ---- App (UIOverlay.tsx 163-310)
    hasStarted,        \* useState hasStarted
    interactionMode,   \* useState interactionMode: "mouse" | "camera"
    currentShape,      \* useState currentShape
    handData,          \* useState handData
    gestureBuffer,     \* gestureBufferRef.current
    closureShape,      \* currentShape captured by the onHandResults closure handed to the tracker
    shapeQueue,        \* queued setCurrentShape(prev => ...) updaters (their shape argument)
    handQueue,         \* queued setHandData(data): <<>> or <<data>> (last one wins)
    modeQueue,         \* queued setInteractionMode(mode): <<>> or <<mode>>
    rendering,         \* TRUE while React runs the queued updaters of one render
    startPc,           \* position of the async handleStart
    trackerOn,         \* the tracker's camera loop is delivering results
    audioReady,        \* audioManagerRef.current is an initialized AudioManager
    intensity,         \* last value given to AudioManager.updateInteraction
    shapeSounds,       \* number of playShapeChangeSound calls (shape-changed events)
    \* ---- Nebula3D (part_000 13-337)
    shapeRef,          \* shapeRef.current
    handDataRef,       \* handDataRef.current
    targetPositions,   \* targetPositionsRef.current: one point per particle
    positions,         \* geometryRef.current.attributes.position.array: one point per particle
    allocations,       \* number of position arrays created by the init effect
    spawn,             \* the random fill of the current position array
    mouseRef,          \* mouseRef.current
    isMouseDownRef,    \* isMouseDownRef.current
    handlerMode,       \* interactionMode seen by the registered mouse handlers ("none": not registered)
    audioListeners,    \* App's mouse listeners for the audio modulation are registered
    depShape,          \* currentShape of the render whose effects ran last ("none": not mounted)
    depHand,           \* handData of the render whose effects ran last
    depMode,           \* interactionMode of the render whose effects ran last
    loopGen,           \* number of runs of the init effect
    closures,          \* per run of the init effect: the interactionMode and camera aspect its animate sees
    windowAspect,      \* window.innerWidth / window.innerHeight
    clock,             \* elapsed time read by the last frame of the current THREE.Clock
    reqIdRef,          \* reqIdRef.current (0: null)
    rafPending,        \* requested animation frames: [id, gen]
    buttonsHeld,       \* mouse buttons physically held (0 primary, 2 secondary)
    \* ---- environment bookkeeping
    sinceReset,        \* detected finger counts since gestureBufferRef was last emptied
    lastFingers,       \* finger count of the last detected sample (-1: none)
    obsLeft,           \* detected hand samples the environment may still deliver
    runsLeft,          \* changes of the observed finger count still allowed
    manualLeft,        \* manual shape selections still allowed
    unrendered,        \* handlers that queued a state update since the last render
    windowLeft         \* window events (mouse, resize) still allowed

appVars == <<hasStarted, interactionMode, currentShape, handData, gestureBuffer,
             closureShape, shapeQueue, handQueue, modeQueue, rendering, startPc,
             trackerOn, audioReady, intensity, shapeSounds>>
envVars == <<sinceReset, lastFingers, obsLeft, runsLeft, manualLeft, unrendered,
             windowLeft>>
nebulaVars == <<shapeRef, handDataRef, targetPositions, positions, allocations, spawn,
                mouseRef, isMouseDownRef, handlerMode, audioListeners, depShape, depHand,
                depMode, loopGen, closures, windowAspect, clock, reqIdRef, rafPending,
                buttonsHeld>>
vars == <<appVars, envVars, nebulaVars>>

(***************************************************************************)
(* Bounds of the model                                                     *)
(***************************************************************************)
MaxObs == 16        \* detected hand samples delivered in one behaviour
MaxRuns == 1        \* changes of the observed finger count
MaxManual == 1      \* manual shape selections
MaxPending == 2     \* handlers that run between two renders

(***************************************************************************)
(* Program constants and types                                             *)
(***************************************************************************)
GESTURE_BUFFER_SIZE == 15

ParticleShape == {"SPHERE", "HEART", "FLOWER", "SATURN", "FIREWORKS"}

Fingers == 0..5

\* HandData of a frame without a hand (handTracker.ts 58-64, App initial state)
NoHand ==
    [fingersUp |-> 0, isPinching |-> FALSE, pinchDistance |-> 1000,
     handPosition |-> [x |-> 500, y |-> 500], detected |-> FALSE]

Min(a, b) == IF a < b THEN a ELSE b
Max(a, b) == IF a > b THEN a ELSE b

\* HandTracker.processResults: landmarks -> HandData.  A result is NoLandmarks
\* or [ext: the extended fingers, tip: index tip, pinch: thumb-index distance].
NoLandmarks == [hand |-> FALSE]

processResults(results) ==
    IF ~results.hand
    THEN NoHand
    ELSE [fingersUp |-> Cardinality(results.ext),
          isPinching |-> results.pinch < 50,
          pinchDistance |-> results.pinch,
          handPosition |-> [x |-> 1000 - results.tip.x, y |-> results.tip.y],
          detected |-> TRUE]

(***************************************************************************)
(* GestureConsensusFilter (onHandResults, UIOverlay.tsx 208-245)           *)
(***************************************************************************)
\* mutant of PushGesture: shifts as soon as the window is full (keeps 14)
PushGestureEarlyShift(buffer, n) ==
    LET pushed == Append(buffer, n)
    IN  IF Len(pushed) >= GESTURE_BUFFER_SIZE THEN Tail(pushed) ELSE pushed

\* buffer.push(n); if (buffer.length > GESTURE_BUFFER_SIZE) buffer.shift()
PushGesture(buffer, n) ==
    LET pushed == Append(buffer, n)
    IN  IF Len(pushed) > GESTURE_BUFFER_SIZE THEN Tail(pushed) ELSE pushed

\* counts[n]: occurrences of n in the buffer
Counts(buffer, n) == Cardinality({k \in 1..Len(buffer) : buffer[k] = n})

\* mutant of Consensus: count >= GESTURE_BUFFER_SIZE * 0.8
ConsensusAtLeast(buffer) ==
    LET over == {n \in Fingers : 10 * Counts(buffer, n) >= 8 * GESTURE_BUFFER_SIZE}
    IN  IF over = {} THEN -1
        ELSE CHOOSE n \in over : \A m \in over : n <= m

\* Object.entries(counts).find(count > GESTURE_BUFFER_SIZE * 0.8): integer keys
\* are visited in ascending order; -1 stands for undefined.
Consensus(buffer) ==
    LET over == {n \in Fingers : 10 * Counts(buffer, n) > 8 * GESTURE_BUFFER_SIZE}
    IN  IF over = {} THEN -1
        ELSE CHOOSE n \in over : \A m \in over : n <= m

\* mutant of NewShape: the branches of 3 and 4 fingers exchanged
NewShapeSwapped(fingers, current) ==
    IF fingers = 2 THEN "FLOWER"
    ELSE IF fingers = 3 THEN "HEART"
    ELSE IF fingers = 4 THEN "SATURN"
    ELSE IF fingers = 5 THEN "FIREWORKS"
    ELSE current

\* the finger-to-shape mapping, starting from the closure's currentShape
NewShape(fingers, current) ==
    IF fingers = 2 THEN "FLOWER"
    ELSE IF fingers = 3 THEN "SATURN"
    ELSE IF fingers = 4 THEN "HEART"
    ELSE IF fingers = 5 THEN "FIREWORKS"
    ELSE current

\* the shapes onHandResults hands to changeShape for this buffer: <<>> or <<shape>>
GestureRequest(buffer, current) ==
    LET c == Consensus(buffer)
    IN  IF c # -1 /\ NewShape(c, current) # current
        THEN <<NewShape(c, current)>>
        ELSE <<>>

\* audio intensity of a detected sample (UIOverlay.tsx 250-257)
PinchIntensity(data) ==
    IF data.isPinching THEN 1000
    ELSE LET dist == Min(Max(data.pinchDistance, 50), 300)
         IN  1000 - ((dist - 50) * 1000) \div 250

(***************************************************************************)
(* Inputs                                                                  *)
(***************************************************************************)
\* one landmark result per finger count: the first f fingers extended
Landmarks(f, tip, pinch) == [hand |-> TRUE, ext |-> 1..f, tip |-> tip, pinch |-> pinch]

CentreTip == [x |-> 500, y |-> 500]

\* The classifier's frame-to-frame noise: between two consecutive detected
\* samples the finger count changes by at most one finger.
Flicker(last) == IF last = -1 THEN Fingers ELSE {f \in Fingers : f - last \in -1..1}

\* results the landmark detector delivers to the gesture filter
GestureResults ==
    {NoLandmarks} \cup {Landmarks(f, CentreTip, p) : f \in Fingers, p \in {175}}

(***************************************************************************)
(* Initial state: App before "ENTER EXPERIENCE" (UIOverlay.tsx 164-180)    *)
(***************************************************************************)
InitApp ==
    /\ hasStarted = FALSE
    /\ interactionMode = "mouse"
    /\ currentShape = "SPHERE"
    /\ handData = NoHand
    /\ gestureBuffer = <<>>
    /\ closureShape = "SPHERE"
    /\ shapeQueue = <<>>
    /\ handQueue = <<>>
    /\ modeQueue = <<>>
    /\ rendering = FALSE
    /\ startPc = "idle"
    /\ trackerOn = FALSE
    /\ audioReady = FALSE
    /\ intensity = 0
    /\ shapeSounds = 0

InitEnv(obs, runs, manual, window) ==
    /\ sinceReset = <<>>
    /\ lastFingers = -1
    /\ obsLeft = obs
    /\ runsLeft = runs
    /\ manualLeft = manual
    /\ unrendered = 0
    /\ windowLeft = window

(***************************************************************************)
(* handleStart (UIOverlay.tsx 182-206) and HandTracker.initialize          *)
(* (handTracker.ts 24-55); one action per await                            *)
(***************************************************************************)
\* click on ENTER EXPERIENCE: setHasStarted(true), then await audio.initialize().
\* The onHandResults later given to the tracker is the one of this render.
handleStart ==
    /\ ~rendering
    /\ startPc = "idle"
    /\ hasStarted' = TRUE
    /\ closureShape' = currentShape
    /\ startPc' = "audio"
    /\ UNCHANGED <<interactionMode, currentShape, handData, gestureBuffer, shapeQueue,
                   handQueue, modeQueue, rendering, trackerOn, audioReady, intensity,
                   shapeSounds, envVars, nebulaVars>>

\* audio.initialize() settles; a rejection ends handleStart.  Then the test
\* navigator.mediaDevices && navigator.mediaDevices.getUserMedia.
startAudio(audioOk, hasMedia) ==
    /\ ~rendering
    /\ startPc = "audio"
    /\ audioReady' = audioOk
    /\ startPc' = IF audioOk /\ hasMedia THEN "media" ELSE "done"
    /\ UNCHANGED <<hasStarted, interactionMode, currentShape, handData, gestureBuffer,
                   closureShape, shapeQueue, handQueue, modeQueue, rendering, trackerOn,
                   intensity, shapeSounds, envVars, nebulaVars>>

\* getUserMedia({video: true}) settles: a rejection is caught and selects the
\* mouse; otherwise the tracker is created when the video element exists.
startMedia(granted, hasVideo) ==
    /\ ~rendering
    /\ startPc = "media"
    /\ modeQueue' = IF granted THEN modeQueue ELSE <<"mouse">>
    /\ startPc' = IF granted /\ hasVideo THEN "tracker" ELSE "done"
    /\ UNCHANGED <<hasStarted, interactionMode, currentShape, handData, gestureBuffer,
                   closureShape, shapeQueue, handQueue, rendering, trackerOn, audioReady,
                   intensity, shapeSounds, envVars, nebulaVars>>

\* tracker.initialize() settles.  Without window.Hands it returns at once;
\* without window.Camera no frame is ever sent; camera.start() may reject,
\* which is caught by handleStart.
startTracker(hasHands, hasCamera, cameraOk) ==
    /\ ~rendering
    /\ startPc = "tracker"
    /\ trackerOn' = (hasHands /\ hasCamera /\ cameraOk)
    /\ modeQueue' = IF hasHands /\ hasCamera /\ ~cameraOk THEN <<"mouse">> ELSE <<"camera">>
    /\ startPc' = "done"
    /\ UNCHANGED <<hasStarted, interactionMode, currentShape, handData, gestureBuffer,
                   closureShape, shapeQueue, handQueue, rendering, audioReady, intensity,
                   shapeSounds, envVars, nebulaVars>>

(***************************************************************************)
(* onHandResults (UIOverlay.tsx 208-263), called by the tracker with the   *)
(* HandData of processResults                                              *)
(***************************************************************************)
\* as onHandResults, but a lost hand empties the gesture window
onHandResultsClearing(data) ==
    LET buffer == PushGesture(gestureBuffer, data.fingersUp)
        request == GestureRequest(buffer, closureShape)
    IN  /\ ~rendering
        /\ trackerOn
        /\ unrendered < MaxPending
        /\ unrendered' = unrendered + 1
        /\ handQueue' = <<data>>
        /\ IF data.detected
           THEN /\ obsLeft > 0
                /\ data.fingersUp \in Flicker(lastFingers)
                /\ obsLeft' = obsLeft - 1
                /\ lastFingers # data.fingersUp /\ lastFingers # -1 => runsLeft > 0
                /\ runsLeft' = IF lastFingers # data.fingersUp /\ lastFingers # -1
                               THEN runsLeft - 1 ELSE runsLeft
                /\ lastFingers' = data.fingersUp
                /\ gestureBuffer' = buffer
                /\ sinceReset' = Append(sinceReset, data.fingersUp)
                /\ shapeQueue' = shapeQueue \o request
                /\ intensity' = IF audioReady THEN PinchIntensity(data) ELSE intensity
           ELSE /\ intensity' = IF audioReady THEN 0 ELSE intensity
                /\ gestureBuffer' = <<>>
                /\ sinceReset' = <<>>
                /\ UNCHANGED <<shapeQueue, lastFingers, runsLeft, obsLeft>>
        /\ UNCHANGED <<hasStarted, interactionMode, currentShape, handData, closureShape,
                       modeQueue, rendering, startPc, trackerOn, audioReady, shapeSounds,
                       manualLeft, windowLeft, nebulaVars>>

onHandResults(data) ==
    LET buffer == PushGesture(gestureBuffer, data.fingersUp)
        request == GestureRequest(buffer, closureShape)
    IN  /\ ~rendering
        /\ trackerOn
        /\ unrendered < MaxPending
        /\ unrendered' = unrendered + 1
        /\ handQueue' = <<data>>
        /\ IF data.detected
           THEN /\ obsLeft > 0
                /\ data.fingersUp \in Flicker(lastFingers)
                /\ obsLeft' = obsLeft - 1
                /\ lastFingers # data.fingersUp /\ lastFingers # -1 => runsLeft > 0
                /\ runsLeft' = IF lastFingers # data.fingersUp /\ lastFingers # -1
                               THEN runsLeft - 1 ELSE runsLeft
                /\ lastFingers' = data.fingersUp
                /\ gestureBuffer' = buffer
                /\ sinceReset' = Append(sinceReset, data.fingersUp)
                /\ shapeQueue' = shapeQueue \o request
                /\ intensity' = IF audioReady THEN PinchIntensity(data) ELSE intensity
           ELSE /\ intensity' = IF audioReady THEN 0 ELSE intensity
                /\ UNCHANGED <<gestureBuffer, sinceReset, shapeQueue, lastFingers, runsLeft,
                               obsLeft>>
        /\ UNCHANGED <<hasStarted, interactionMode, currentShape, handData, closureShape,
                       modeQueue, rendering, startPc, trackerOn, audioReady, shapeSounds,
                       manualLeft, windowLeft, nebulaVars>>

(***************************************************************************)
(* changeShape (UIOverlay.tsx 265-275)                                     *)
(***************************************************************************)
\* a shape button of the overlay: onManualShapeChange = changeShape queues the
\* updater; React renders the updates of a click before the handler returns to
\* the event loop, so the render starts here.
onManualShapeChange(shape) ==
    /\ ~rendering
    /\ hasStarted
    /\ manualLeft > 0
    /\ manualLeft' = manualLeft - 1
    /\ shapeQueue' = Append(shapeQueue, shape)
    /\ rendering' = TRUE
    /\ UNCHANGED <<hasStarted, interactionMode, currentShape, handData, gestureBuffer,
                   closureShape, handQueue, modeQueue, startPc, trackerOn,
                   audioReady, intensity, shapeSounds, sinceReset, lastFingers, obsLeft,
                   runsLeft, unrendered, windowLeft, nebulaVars>>

\* mutant of ShapeChanged: the updater without its test
ShapeChangedAlways(prev, shape) == TRUE

\* the updater's test prev !== shape
ShapeChanged(prev, shape) == prev # shape

\* the updater prev => {...}: the state it returns
ShapeUpdater(prev, shape) == IF ShapeChanged(prev, shape) THEN shape ELSE prev

\* mutant of BufferAfterUpdater: the buffer is never reset
BufferKept(prev, shape, buffer) == buffer

\* mutant of BufferAfterUpdater: the buffer is reset by every updater
BufferAlwaysReset(prev, shape, buffer) == <<>>

\* the updater's side effect on gestureBufferRef.current
BufferAfterUpdater(prev, shape, buffer) == IF ShapeChanged(prev, shape) THEN <<>> ELSE buffer

\* React runs the next queued updater of setCurrentShape during a render
runShapeUpdater ==
    /\ shapeQueue # <<>>
    /\ LET shape == Head(shapeQueue)
       IN  /\ currentShape' = ShapeUpdater(currentShape, shape)
           /\ gestureBuffer' = BufferAfterUpdater(currentShape, shape, gestureBuffer)
           /\ sinceReset' = BufferAfterUpdater(currentShape, shape, sinceReset)
           /\ shapeSounds' = IF ShapeChanged(currentShape, shape) /\ audioReady
                             THEN shapeSounds + 1 ELSE shapeSounds
    /\ shapeQueue' = Tail(shapeQueue)
    /\ rendering' = TRUE
    /\ UNCHANGED <<hasStarted, interactionMode, handData, closureShape, handQueue,
                   modeQueue, startPc, trackerOn, audioReady, intensity, lastFingers,
                   obsLeft, runsLeft, manualLeft, unrendered, windowLeft, nebulaVars>>

\* the render ends: the queued handData and interactionMode become the state
commitRender ==
    /\ shapeQueue = <<>>
    /\ rendering \/ handQueue # <<>> \/ modeQueue # <<>>
    /\ handData' = IF handQueue # <<>> THEN handQueue[1] ELSE handData
    /\ interactionMode' = IF modeQueue # <<>> THEN modeQueue[1] ELSE interactionMode
    /\ handQueue' = <<>>
    /\ modeQueue' = <<>>
    /\ rendering' = FALSE
    /\ unrendered' = 0
    /\ UNCHANGED <<hasStarted, currentShape, gestureBuffer, closureShape, shapeQueue,
                   startPc, trackerOn, audioReady, intensity, shapeSounds, sinceReset,
                   lastFingers, obsLeft, runsLeft, manualLeft, windowLeft, nebulaVars>>

(***************************************************************************)
(* Nebula3D: numeric helpers                                               *)
(***************************************************************************)
Abs(a) == IF a < 0 THEN -a ELSE a

\* the nearest integer to a / b (b > 0), halves away from zero: a float store
DivRound(a, b) ==
    IF a >= 0 THEN (2 * a + b) \div (2 * b) ELSE -((2 * (-a) + b) \div (2 * b))

\* floor of the square root
RECURSIVE SqrtBetween(_, _, _)
SqrtBetween(n, lo, hi) ==
    IF lo >= hi THEN lo
    ELSE LET mid == (lo + hi + 1) \div 2
         IN  IF mid * mid <= n THEN SqrtBetween(n, mid, hi) ELSE SqrtBetween(n, lo, mid - 1)

Sqrt(n) == SqrtBetween(n, 0, 46340)

\* Math.sin on a grid of 12 angles per turn, in thousandths
SinTable == <<0, 500, 866, 1000, 866, 500, 0, -500, -866, -1000, -866, -500>>
Sin12(k) == SinTable[(k % 12) + 1]
Cos12(k) == Sin12(k + 3)

Point(x, y, z) == [x |-> x, y |-> y, z |-> z]

(***************************************************************************)
(* ShapeFieldGenerator: calculateTargetPositions (part_000 58-143)         *)
(***************************************************************************)
\* Points the switch branch of a shape produces, for two draws of
\* Math.random() each, in hundredths:
\*   SPHERE     r=25, phi=pi/2, theta=0       | r=27, phi=0
\*   HEART      t=0, thick=0                  | t=pi/2, thick=2.49
\*   FLOWER     theta=0, r=35*1.0, z=0        | theta=pi/2, r=35*0.8, z=-5
\*   SATURN     ring angle=0, dist=40, y=0    | planet r=12, phi=0 (both tilted by 0.4)
\*   FIREWORKS  r=0                           | r=45, phi=pi/2, theta=pi/2
ShapePoints(type) ==
    CASE type = "SPHERE"    -> {Point(2500, 0, 0), Point(0, 0, 2700)}
      [] type = "HEART"     -> {Point(0, 750, 0), Point(2400, 600, 249)}
      [] type = "FLOWER"    -> {Point(3500, 0, 0), Point(0, 2800, -500)}
      [] type = "SATURN"    -> {Point(4000, 0, 0), Point(0, -467, 1105)}
      [] type = "FIREWORKS" -> {Point(0, 0, 0), Point(0, 4500, 0)}

MaxParticles == 2

PARTICLE_COUNT == MaxParticles

Particles == 1..PARTICLE_COUNT

\* as calculateTargetPositions, but the loop may skip entries, which keep the
\* zeros of the new Float32Array
calculateTargetPositionsPartial(type) == [Particles -> ShapePoints(type) \cup {Point(0, 0, 0)}]

\* the arrays calculateTargetPositions can leave in targetPositionsRef:
\* every index is overwritten with a point of shapeRef.current
calculateTargetPositions(type) == [Particles -> ShapePoints(type)]

\* initial random positions (part_000 171-174): (Math.random() - 0.5) * 100 per
\* axis, in hundredths; the fill drawn when the engine is observed inside the App
EngineFills == {[i \in Particles |-> IF i = 1 THEN Point(-4000, 2500, -4000)
                                              ELSE Point(1000, 0, 3000)]}

(***************************************************************************)
(* InteractionLocator and MorphIntegrator: animate (part_000 215-311)      *)
(***************************************************************************)
DefaultInteractionZ == 3000

\* 2 * tan(75 degrees / 2) * camera.position.z = 2 * 0.76733 * 80
VisibleHeight == 12277

VisibleWidth(aspect) == DivRound(VisibleHeight * aspect, 1000)

\* isActive (part_000 227-254)
IsActive(mode, hand) == (mode = "camera" /\ hand.detected) \/ mode = "mouse"

\* isAttracting
IsAttracting(mode, hand, mouseDown) ==
    IF mode = "camera" /\ hand.detected THEN hand.isPinching
    ELSE IF mode = "mouse" THEN mouseDown
    ELSE FALSE

\* the interaction point (ix, iy, iz)
InteractionPoint(mode, hand, mouse, aspect) ==
    IF mode = "camera" /\ hand.detected
    THEN Point(DivRound((hand.handPosition.x - 500) * VisibleWidth(aspect), 1000),
               -DivRound((hand.handPosition.y - 500) * VisibleHeight, 1000),
               DefaultInteractionZ)
    ELSE IF mode = "mouse"
    THEN Point(DivRound(mouse.x * VisibleWidth(aspect), 2000),
               DivRound(mouse.y * VisibleHeight, 2000),
               DefaultInteractionZ)
    ELSE Point(0, 0, DefaultInteractionZ)

\* Math.sin(time * 2 + i) * 0.5 and Math.cos(time * 1.5 + i) * 0.5: one clock
\* tick is two grid angles, the index i (from 0) counts two grid angles each
DriftX(time, i) == DivRound(Sin12(4 * time + 2 * (i - 1)) * 50, 1000)
DriftY(time, i) == DivRound(Cos12(3 * time + 2 * (i - 1)) * 50, 1000)

\* (Math.random() - 0.5) * 5 per axis (part_000 282-284), in hundredths;
\* the jitters drawn when the engine is observed inside the App
EngineJitters == {[i \in Particles |-> [x |-> -250, y |-> -250, z |-> -250]],
                  [i \in Particles |-> IF i = 1 THEN [x |-> 249, y |-> -250, z |-> 249]
                                                ELSE [x |-> -250, y |-> 249, z |-> 249]]}

\* as Lerp, with -= for +=
LerpAway(p, t) == p - DivRound(t - p, 20)

\* positions[i] += (t - positions[i]) * lerpFactor, lerpFactor = 0.05
Lerp(p, t) == p + DivRound(t - p, 20)

\* as EffectiveTarget, with the radius of the repulsion (25) copied into the
\* attraction test
EffectiveTargetNarrow(p, target, i, time, active, attracting, ipt, jitter) ==
    LET tx == target.x + DriftX(time, i)
        ty == target.y + DriftY(time, i)
        tz == target.z
        dx == ipt.x - p.x
        dy == ipt.y - p.y
        dz == ipt.z - p.z
        distSq == dx * dx + dy * dy + dz * dz
        dist == Sqrt(distSq)
    IN  IF ~active THEN Point(tx, ty, tz)
        ELSE IF attracting
        THEN IF distSq < 2500 * 2500
             THEN Point(ipt.x + jitter.x, ipt.y + jitter.y, ipt.z + jitter.z)
             ELSE Point(tx, ty, tz)
        ELSE IF distSq < 2500 * 2500
             THEN Point(tx - DivRound(dx * (2500 - dist) * 2, 2500),
                        ty - DivRound(dy * (2500 - dist) * 2, 2500),
                        tz - DivRound(dz * (2500 - dist) * 2, 2500))
             ELSE Point(tx, ty, tz)

\* as EffectiveTarget, with += for -= in the repulsion
EffectiveTargetPull(p, target, i, time, active, attracting, ipt, jitter) ==
    LET tx == target.x + DriftX(time, i)
        ty == target.y + DriftY(time, i)
        tz == target.z
        dx == ipt.x - p.x
        dy == ipt.y - p.y
        dz == ipt.z - p.z
        distSq == dx * dx + dy * dy + dz * dz
        dist == Sqrt(distSq)
    IN  IF ~active THEN Point(tx, ty, tz)
        ELSE IF attracting
        THEN IF distSq < 4000 * 4000
             THEN Point(ipt.x + jitter.x, ipt.y + jitter.y, ipt.z + jitter.z)
             ELSE Point(tx, ty, tz)
        ELSE IF distSq < 2500 * 2500
             THEN Point(tx + DivRound(dx * (2500 - dist) * 2, 2500),
                        ty + DivRound(dy * (2500 - dist) * 2, 2500),
                        tz + DivRound(dz * (2500 - dist) * 2, 2500))
             ELSE Point(tx, ty, tz)

\* the target a particle is moved toward in this frame (part_000 262-295)
EffectiveTarget(p, target, i, time, active, attracting, ipt, jitter) ==
    LET tx == target.x + DriftX(time, i)
        ty == target.y + DriftY(time, i)
        tz == target.z
        dx == ipt.x - p.x
        dy == ipt.y - p.y
        dz == ipt.z - p.z
        distSq == dx * dx + dy * dy + dz * dz
        dist == Sqrt(distSq)
    IN  IF ~active THEN Point(tx, ty, tz)
        ELSE IF attracting
        THEN IF distSq < 4000 * 4000
             THEN Point(ipt.x + jitter.x, ipt.y + jitter.y, ipt.z + jitter.z)
             ELSE Point(tx, ty, tz)
        ELSE IF distSq < 2500 * 2500
             THEN Point(tx - DivRound(dx * (2500 - dist) * 2, 2500),
                        ty - DivRound(dy * (2500 - dist) * 2, 2500),
                        tz - DivRound(dz * (2500 - dist) * 2, 2500))
             ELSE Point(tx, ty, tz)

\* one particle of the loop
MoveParticle(p, target, i, time, active, attracting, ipt, jitter) ==
    LET t == EffectiveTarget(p, target, i, time, active, attracting, ipt, jitter)
    IN  Point(Lerp(p.x, t.x), Lerp(p.y, t.y), Lerp(p.z, t.z))

\* as StepParticle, but the reads use the index of the particle before
StepParticleNeighbour(pos, target, i, time, active, attracting, ipt, jitter) ==
    [pos EXCEPT ![i] = MoveParticle(pos[IF i > 1 THEN i - 1 ELSE i], target[i], i, time,
                                    active, attracting, ipt, jitter[i])]

\* one iteration of the loop: the position array is updated in place
StepParticle(pos, target, i, time, active, attracting, ipt, jitter) ==
    [pos EXCEPT ![i] = MoveParticle(pos[i], target[i], i, time, active, attracting, ipt,
                                    jitter[i])]

\* the iterations for order[k], order[k + 1], ... one after the other
RECURSIVE LoopInOrder(_, _, _, _, _, _, _, _, _)
LoopInOrder(order, k, pos, target, time, active, attracting, ipt, jitter) ==
    IF k > Len(order) THEN pos
    ELSE LoopInOrder(order, k + 1,
                     StepParticle(pos, target, order[k], time, active, attracting, ipt, jitter),
                     target, time, active, attracting, ipt, jitter)

\* for (let i = 0; i < PARTICLE_COUNT; i++)
CodeOrder == [k \in 1..PARTICLE_COUNT |-> k]

\* the particle loop of one frame (part_000 259-301)
ParticleLoop(pos, target, time, active, attracting, ipt, jitter) ==
    LoopInOrder(CodeOrder, 1, pos, target, time, active, attracting, ipt, jitter)

\* the positions one call of animate leaves
Frame(pos, target, time, mode, aspect, hand, mouse, mouseDown, jitter) ==
    ParticleLoop(pos, target, time, IsActive(mode, hand),
                 IsAttracting(mode, hand, mouseDown),
                 InteractionPoint(mode, hand, mouse, aspect), jitter)

(***************************************************************************)
(* Nebula3D: state before the first effects ran                            *)
(***************************************************************************)
Origin == Point(0, 0, 0)

InitNebula ==
    /\ shapeRef = "SPHERE"
    /\ handDataRef = NoHand
    /\ targetPositions = [i \in Particles |-> Origin]
    /\ positions = [i \in Particles |-> Origin]
    /\ allocations = 0
    /\ spawn = [i \in Particles |-> Origin]
    /\ mouseRef = [x |-> 0, y |-> 0]
    /\ isMouseDownRef = FALSE
    /\ handlerMode = "none"
    /\ audioListeners = FALSE
    /\ depShape = "none"
    /\ depHand = NoHand
    /\ depMode = "none"
    /\ loopGen = 0
    /\ closures = <<>>
    /\ windowAspect = 1000
    /\ clock = 0
    /\ reqIdRef = 0
    /\ rafPending = {}
    /\ buttonsHeld = {}

Mounted == depMode # "none"

\* effects of the last render are still to run
EffectsPending ==
    depShape # currentShape \/ depHand # handData \/ depMode # interactionMode

MaxTime == 2        \* clock ticks read by the frames of one animation loop

WindowAspects == {1000, 1500}
MousePositions == {[x |-> 0, y |-> 0], [x |-> 500, y |-> -250]}
MouseButtons == {0, 2}

(***************************************************************************)
(* Nebula3D and App effects after a render, in declaration order           *)
(* (part_000 31, 32, 35-56, 145-333; UIOverlay.tsx 278-289)                *)
\* as flushEffects, but the cleanup of the init effect cancels no frame
flushEffectsNoCancel(fill, jitter) ==
    LET shapeChanged == depShape # currentShape
        modeChanged == depMode # interactionMode
    IN  /\ ~rendering
        /\ EffectsPending
        \* shapeRef.current = currentShape; calculateTargetPositions()
        /\ shapeRef' = IF shapeChanged THEN currentShape ELSE shapeRef
        \* handDataRef.current = handData
        /\ handDataRef' = handData
        \* mouse handlers of Nebula3D and of App are registered again
        /\ handlerMode' = interactionMode
        /\ audioListeners' = (interactionMode = "mouse")
        /\ depShape' = currentShape
        /\ depHand' = handData
        /\ depMode' = interactionMode
        /\ IF modeChanged
           THEN \* cleanup: cancelAnimationFrame(reqIdRef.current); then the init
                \* effect: new camera, new position array, calculateTargetPositions(),
                \* new clock, animate()
                /\ loopGen' = loopGen + 1
                /\ closures' = Append(closures, [mode |-> interactionMode, aspect |-> windowAspect])
                /\ allocations' = allocations + 1
                /\ clock' = 0
                /\ reqIdRef' = reqIdRef + 1
                /\ rafPending' = rafPending \cup {[id |-> reqIdRef + 1, gen |-> loopGen + 1]}
                /\ \E target \in calculateTargetPositions(shapeRef') :
                      /\ spawn' = fill
                      /\ targetPositions' = target
                      /\ positions' = Frame(fill, target, 0, interactionMode, windowAspect,
                                            handDataRef', mouseRef, isMouseDownRef, jitter)
           ELSE /\ IF shapeChanged
                   THEN targetPositions' \in calculateTargetPositions(shapeRef')
                   ELSE UNCHANGED targetPositions
                /\ UNCHANGED <<positions, allocations, spawn, loopGen, closures, clock,
                               reqIdRef, rafPending>>
        /\ UNCHANGED <<mouseRef, isMouseDownRef, windowAspect, buttonsHeld, appVars, envVars>>

(***************************************************************************)
flushEffects(fill, jitter) ==
    LET shapeChanged == depShape # currentShape
        modeChanged == depMode # interactionMode
    IN  /\ ~rendering
        /\ EffectsPending
        \* shapeRef.current = currentShape; calculateTargetPositions()
        /\ shapeRef' = IF shapeChanged THEN currentShape ELSE shapeRef
        \* handDataRef.current = handData
        /\ handDataRef' = handData
        \* mouse handlers of Nebula3D and of App are registered again
        /\ handlerMode' = interactionMode
        /\ audioListeners' = (interactionMode = "mouse")
        /\ depShape' = currentShape
        /\ depHand' = handData
        /\ depMode' = interactionMode
        /\ IF modeChanged
           THEN \* cleanup: cancelAnimationFrame(reqIdRef.current); then the init
                \* effect: new camera, new position array, calculateTargetPositions(),
                \* new clock, animate()
                /\ loopGen' = loopGen + 1
                /\ closures' = Append(closures, [mode |-> interactionMode, aspect |-> windowAspect])
                /\ allocations' = allocations + 1
                /\ clock' = 0
                /\ reqIdRef' = reqIdRef + 1
                /\ rafPending' = {f \in rafPending : f.id # reqIdRef}
                                     \cup {[id |-> reqIdRef + 1, gen |-> loopGen + 1]}
                /\ \E target \in calculateTargetPositions(shapeRef') :
                      /\ spawn' = fill
                      /\ targetPositions' = target
                      /\ positions' = Frame(fill, target, 0, interactionMode, windowAspect,
                                            handDataRef', mouseRef, isMouseDownRef, jitter)
           ELSE /\ IF shapeChanged
                   THEN targetPositions' \in calculateTargetPositions(shapeRef')
                   ELSE UNCHANGED targetPositions
                /\ UNCHANGED <<positions, allocations, spawn, loopGen, closures, clock,
                               reqIdRef, rafPending>>
        /\ UNCHANGED <<mouseRef, isMouseDownRef, windowAspect, buttonsHeld, appVars, envVars>>

(***************************************************************************)
(* animate (part_000 215-311): the callback of a requested frame           *)
(***************************************************************************)
\* as animate, but the tick regenerates the targets before it integrates
animateRegenerating(frame, time, jitter) ==
    /\ ~rendering
    /\ frame \in rafPending
    /\ time > clock
    /\ reqIdRef' = reqIdRef + 1
    /\ rafPending' = (rafPending \ {frame}) \cup {[id |-> reqIdRef + 1, gen |-> frame.gen]}
    /\ clock' = time
    /\ targetPositions' \in calculateTargetPositions(currentShape)
    /\ positions' = Frame(positions, targetPositions', time, closures[frame.gen].mode,
                          closures[frame.gen].aspect, handDataRef, mouseRef,
                          isMouseDownRef, jitter)
    /\ UNCHANGED <<shapeRef, handDataRef, allocations, spawn, mouseRef,
                   isMouseDownRef, handlerMode, audioListeners, depShape, depHand, depMode,
                   loopGen, closures, windowAspect, buttonsHeld, appVars, envVars>>

animate(frame, time, jitter) ==
    /\ ~rendering
    /\ frame \in rafPending
    /\ time > clock
    /\ reqIdRef' = reqIdRef + 1
    /\ rafPending' = (rafPending \ {frame}) \cup {[id |-> reqIdRef + 1, gen |-> frame.gen]}
    /\ clock' = time
    /\ positions' = Frame(positions, targetPositions, time, closures[frame.gen].mode,
                          closures[frame.gen].aspect, handDataRef, mouseRef,
                          isMouseDownRef, jitter)
    /\ UNCHANGED <<shapeRef, handDataRef, targetPositions, allocations, spawn, mouseRef,
                   isMouseDownRef, handlerMode, audioListeners, depShape, depHand, depMode,
                   loopGen, closures, windowAspect, buttonsHeld, appVars, envVars>>

(***************************************************************************)
(* window events                                                           *)
(***************************************************************************)
\* handleMouseMove (part_000 36-44)
handleMouseMove(ndc) ==
    /\ ~rendering
    /\ handlerMode # "none"
    /\ ndc # mouseRef
    /\ windowLeft > 0
    /\ windowLeft' = windowLeft - 1
    /\ mouseRef' = IF handlerMode = "mouse" THEN ndc ELSE mouseRef
    /\ UNCHANGED <<shapeRef, handDataRef, targetPositions, positions, allocations, spawn,
                   isMouseDownRef, handlerMode, audioListeners, depShape, depHand, depMode,
                   loopGen, closures, windowAspect, clock, reqIdRef, rafPending,
                   buttonsHeld, appVars, sinceReset, lastFingers, obsLeft, runsLeft, manualLeft, unrendered>>

\* a mousedown event: handleMouseDown of Nebula3D (part_000 45) and of App
\* (UIOverlay.tsx 280); neither looks at the button
handleMouseDown(button) ==
    /\ ~rendering
    /\ handlerMode # "none"
    /\ button \notin buttonsHeld
    /\ windowLeft > 0
    /\ windowLeft' = windowLeft - 1
    /\ buttonsHeld' = buttonsHeld \cup {button}
    /\ isMouseDownRef' = IF handlerMode = "mouse" THEN TRUE ELSE isMouseDownRef
    /\ intensity' = IF audioListeners /\ audioReady THEN 1000 ELSE intensity
    /\ UNCHANGED <<shapeRef, handDataRef, targetPositions, positions, allocations, spawn,
                   mouseRef, handlerMode, audioListeners, depShape, depHand, depMode,
                   loopGen, closures, windowAspect, clock, reqIdRef, rafPending,
                   sinceReset, lastFingers, obsLeft, runsLeft, manualLeft, unrendered>>
    /\ UNCHANGED <<hasStarted, interactionMode, currentShape, handData, gestureBuffer,
                   closureShape, shapeQueue, handQueue, modeQueue, rendering, startPc,
                   trackerOn, audioReady, shapeSounds>>

\* a mouseup event: handleMouseUp of Nebula3D (part_000 46) and of App (UIOverlay.tsx 281)
handleMouseUp(button) ==
    /\ ~rendering
    /\ handlerMode # "none"
    /\ button \in buttonsHeld
    /\ buttonsHeld' = buttonsHeld \ {button}
    /\ isMouseDownRef' = IF handlerMode = "mouse" THEN FALSE ELSE isMouseDownRef
    /\ intensity' = IF audioListeners /\ audioReady THEN 0 ELSE intensity
    /\ UNCHANGED <<shapeRef, handDataRef, targetPositions, positions, allocations, spawn,
                   mouseRef, handlerMode, audioListeners, depShape, depHand, depMode,
                   loopGen, closures, windowAspect, clock, reqIdRef, rafPending,
                   sinceReset, lastFingers, obsLeft, runsLeft, manualLeft, unrendered,
                   windowLeft>>
    /\ UNCHANGED <<hasStarted, interactionMode, currentShape, handData, gestureBuffer,
                   closureShape, shapeQueue, handQueue, modeQueue, rendering, startPc,
                   trackerOn, audioReady, shapeSounds>>

\* handleResize (part_000 316-320): the camera of the running init effect follows the window
handleResize(aspect) ==
    /\ ~rendering
    /\ Mounted
    /\ aspect # windowAspect
    /\ windowLeft > 0
    /\ windowLeft' = windowLeft - 1
    /\ windowAspect' = aspect
    /\ closures' = [closures EXCEPT ![loopGen].aspect = aspect]
    /\ UNCHANGED <<shapeRef, handDataRef, targetPositions, positions, allocations, spawn,
                   mouseRef, isMouseDownRef, handlerMode, audioListeners, depShape, depHand,
                   depMode, loopGen, clock, reqIdRef, rafPending, buttonsHeld, appVars,
                   sinceReset, lastFingers, obsLeft, runsLeft, manualLeft, unrendered>>

(***************************************************************************)
(* Specification of the App: start-up, hand samples, manual selection,     *)
(* renders                                                                 *)
(***************************************************************************)
Init == InitApp /\ InitEnv(MaxObs, MaxRuns, MaxManual, 0) /\ InitNebula

Next ==
    \/ handleStart
    \/ \E audioOk, hasMedia \in BOOLEAN : startAudio(audioOk, hasMedia)
    \/ \E granted, hasVideo \in BOOLEAN : startMedia(granted, hasVideo)
    \/ \E hasHands, hasCamera, cameraOk \in BOOLEAN : startTracker(hasHands, hasCamera, cameraOk)
    \/ \E results \in GestureResults : onHandResults(processResults(results))
    \/ \E shape \in ParticleShape : onManualShapeChange(shape)
    \/ runShapeUpdater
    \/ commitRender

Spec == Init /\ [][Next]_vars

(***************************************************************************)
(* Specification of the particle engine inside the App: mount, renders and *)
(* their effects, animation frames, window events, a few hand samples      *)
(***************************************************************************)
MaxInputs == 1      \* detected hand samples, clicks and window events given to the engine

\* inputs the engine may still be given
InputsLeft == obsLeft + manualLeft + windowLeft - 2 * MaxInputs

\* results the landmark detector delivers while the engine is observed
EngineResults ==
    {NoLandmarks, Landmarks(1, CentreTip, 20), Landmarks(1, [x |-> 250, y |-> 250], 175)}

\* The engine is mounted in mouse mode and has run its first frame; the user
\* has entered, audio and camera permission are there, and the tracker is
\* about to be initialized.
InitEngine ==
    /\ hasStarted = TRUE
    /\ interactionMode = "mouse"
    /\ currentShape = "SPHERE"
    /\ handData = NoHand
    /\ gestureBuffer = <<>>
    /\ closureShape = "SPHERE"
    /\ shapeQueue = <<>>
    /\ handQueue = <<>>
    /\ modeQueue = <<>>
    /\ rendering = FALSE
    /\ startPc = "tracker"
    /\ trackerOn = FALSE
    /\ audioReady = TRUE
    /\ intensity = 0
    /\ shapeSounds = 0
    /\ InitEnv(MaxInputs, 0, MaxInputs, MaxInputs)
    /\ shapeRef = "SPHERE"
    /\ handDataRef = NoHand
    /\ allocations = 1
    /\ mouseRef = [x |-> 0, y |-> 0]
    /\ isMouseDownRef = FALSE
    /\ handlerMode = "mouse"
    /\ audioListeners = TRUE
    /\ depShape = "SPHERE"
    /\ depHand = NoHand
    /\ depMode = "mouse"
    /\ loopGen = 1
    /\ closures = <<[mode |-> "mouse", aspect |-> 1000]>>
    /\ windowAspect = 1000
    /\ clock = 0
    /\ reqIdRef = 1
    /\ rafPending = {[id |-> 1, gen |-> 1]}
    /\ buttonsHeld = {}
    /\ \E fill \in EngineFills, target \in calculateTargetPositions("SPHERE"),
          jitter \in EngineJitters :
          /\ spawn = fill
          /\ targetPositions = target
          /\ positions = Frame(fill, target, 0, "mouse", 1000, NoHand, [x |-> 0, y |-> 0],
                               FALSE, jitter)

\* React runs the effects of a render before it renders again
NextEngine ==
    \/ \E fill \in EngineFills, jitter \in EngineJitters : flushEffects(fill, jitter)
    \/ \E hasHands, hasCamera, cameraOk \in BOOLEAN : startTracker(hasHands, hasCamera, cameraOk)
    \/ (rendering \/ ~EffectsPending) /\ runShapeUpdater
    \/ (rendering \/ ~EffectsPending) /\ commitRender
    \/ \E frame \in rafPending, time \in 1..MaxTime, jitter \in EngineJitters :
          animate(frame, time, jitter)
    \/ \E results \in EngineResults :
          /\ results.hand => InputsLeft > 0
          /\ onHandResults(processResults(results))
    \/ InputsLeft > 0 /\ ~EffectsPending /\ \E shape \in ParticleShape : onManualShapeChange(shape)
    \/ InputsLeft > 0 /\ \E ndc \in MousePositions : handleMouseMove(ndc)
    \/ InputsLeft > 0 /\ \E button \in MouseButtons : handleMouseDown(button)
    \/ \E button \in MouseButtons : handleMouseUp(button)
    \/ InputsLeft > 0 /\ \E aspect \in WindowAspects : handleResize(aspect)

SpecEngine == InitEngine /\ [][NextEngine]_vars

(***************************************************************************)
(* MorphIntegrator alone: the engine runs in camera mode with a fixed      *)
(* shape; the hand is mostly out of view, so the frames are inactive.      *)
(* The random fill puts each particle on its target or away from it.       *)
(***************************************************************************)
MaxMorphTime == 4   \* clock ticks read by the frames of the loop

MorphShapes == {"SPHERE", "SATURN"}

\* a draw of the fill away from the target
Displaced(t) == Point(t.x - 5000, t.y - 60, t.z + 1)

MorphFills(target) == {fill \in [Particles -> UNION {{target[i], Displaced(target[i])} : i \in Particles}] :
                          \A i \in Particles : fill[i] \in {target[i], Displaced(target[i])}}

\* a pinching hand at the centre of the image, or no hand
MorphResults == {NoLandmarks, Landmarks(1, CentreTip, 20)}

\* after start-up with a tracker: the init effect of camera mode has run
InitMorph ==
    /\ hasStarted = TRUE
    /\ interactionMode = "camera"
    /\ currentShape \in MorphShapes
    /\ handData = NoHand
    /\ gestureBuffer = <<>>
    /\ closureShape = "SPHERE"
    /\ shapeQueue = <<>>
    /\ handQueue = <<>>
    /\ modeQueue = <<>>
    /\ rendering = FALSE
    /\ startPc = "done"
    /\ trackerOn = TRUE
    /\ audioReady = TRUE
    /\ intensity = 0
    /\ shapeSounds = IF currentShape = "SPHERE" THEN 0 ELSE 1
    /\ InitEnv(MaxInputs, 0, 0, 0)
    /\ shapeRef = currentShape
    /\ handDataRef = NoHand
    /\ allocations = 2
    /\ mouseRef = [x |-> 0, y |-> 0]
    /\ isMouseDownRef = FALSE
    /\ handlerMode = "camera"
    /\ audioListeners = FALSE
    /\ depShape = currentShape
    /\ depHand = NoHand
    /\ depMode = "camera"
    /\ loopGen = 2
    /\ closures = <<[mode |-> "mouse", aspect |-> 1000], [mode |-> "camera", aspect |-> 1000]>>
    /\ windowAspect = 1000
    /\ clock = 0
    /\ reqIdRef = 2
    /\ rafPending = {[id |-> 2, gen |-> 2]}
    /\ buttonsHeld = {}
    /\ \E target \in calculateTargetPositions(currentShape) :
          \E fill \in MorphFills(target), jitter \in EngineJitters :
             /\ spawn = fill
             /\ targetPositions = target
             /\ positions = Frame(fill, target, 0, "camera", 1000, NoHand,
                                  [x |-> 0, y |-> 0], FALSE, jitter)

NextMorph ==
    \/ \E frame \in rafPending, time \in (clock + 1)..Min(clock + 2, MaxMorphTime),
          jitter \in EngineJitters : animate(frame, time, jitter)
    \/ \E results \in MorphResults : onHandResults(processResults(results))
    \/ commitRender
    \/ \E fill \in EngineFills, jitter \in EngineJitters : flushEffects(fill, jitter)

SpecMorph == InitMorph /\ [][NextMorph]_vars

(***************************************************************************)
(* Interaction physics alone: the engine runs in mouse mode with the       *)
(* sphere; the random fill puts the particles at chosen distances from the *)
(* pointer, which the user moves, presses and releases.                    *)
(***************************************************************************)
\* draws of the fill at distance 10, 24, 30, 39.9, 40 and 95 from the point
\* (0, 0, 30) under a centred pointer
InteractStarts == <<Point(1000, 0, 3000), Point(0, 2400, 3000), Point(0, -3000, 3000),
                    Point(3990, 0, 3000), Point(4000, 0, 3000), Point(-4000, 2500, -4000)>>

InteractFills ==
    {[i \in Particles |-> InteractStarts[((k + i) % Len(InteractStarts)) + 1]] :
        k \in 1..Len(InteractStarts)}

InitInteract ==
    /\ hasStarted = TRUE
    /\ interactionMode = "mouse"
    /\ currentShape = "SPHERE"
    /\ handData = NoHand
    /\ gestureBuffer = <<>>
    /\ closureShape = "SPHERE"
    /\ shapeQueue = <<>>
    /\ handQueue = <<>>
    /\ modeQueue = <<>>
    /\ rendering = FALSE
    /\ startPc = "done"
    /\ trackerOn = FALSE
    /\ audioReady = TRUE
    /\ intensity = 0
    /\ shapeSounds = 0
    /\ InitEnv(0, 0, 0, MaxInputs)
    /\ shapeRef = "SPHERE"
    /\ handDataRef = NoHand
    /\ allocations = 1
    /\ mouseRef = [x |-> 0, y |-> 0]
    /\ isMouseDownRef = FALSE
    /\ handlerMode = "mouse"
    /\ audioListeners = TRUE
    /\ depShape = "SPHERE"
    /\ depHand = NoHand
    /\ depMode = "mouse"
    /\ loopGen = 1
    /\ closures = <<[mode |-> "mouse", aspect |-> 1000]>>
    /\ windowAspect = 1000
    /\ clock = 0
    /\ reqIdRef = 1
    /\ rafPending = {[id |-> 1, gen |-> 1]}
    /\ buttonsHeld = {}
    /\ \E fill \in InteractFills, target \in calculateTargetPositions("SPHERE"),
          jitter \in EngineJitters :
          /\ spawn = fill
          /\ targetPositions = target
          /\ positions = Frame(fill, target, 0, "mouse", 1000, NoHand, [x |-> 0, y |-> 0],
                               FALSE, jitter)

NextInteract ==
    \/ \E frame \in rafPending, time \in (clock + 1)..Min(clock + 2, MaxMorphTime),
          jitter \in EngineJitters : animate(frame, time, jitter)
    \/ \E ndc \in MousePositions : handleMouseMove(ndc)
    \/ \E button \in MouseButtons : handleMouseDown(button)
    \/ \E button \in MouseButtons : handleMouseUp(button)

SpecInteract == InitInteract /\ [][NextInteract]_vars

(***************************************************************************)
(* Scenario: a sustained gesture.  The app runs in camera mode with the    *)
(* tracker delivering, the window is empty, the shape is any but Saturn    *)
(* (selected by hand before), and the hand shows 3 fingers thirteen times, *)
(* then 2 fingers twice.  Renders interleave freely with the callbacks.    *)
(***************************************************************************)
SustainedGesture == [k \in 1..15 |-> IF k <= 13 THEN 3 ELSE 2]

InitSustained ==
    /\ hasStarted = TRUE
    /\ interactionMode = "camera"
    /\ currentShape \in ParticleShape \ {"SATURN"}
    /\ handData = NoHand
    /\ gestureBuffer = <<>>
    /\ closureShape = "SPHERE"
    /\ shapeQueue = <<>>
    /\ handQueue = <<>>
    /\ modeQueue = <<>>
    /\ rendering = FALSE
    /\ startPc = "done"
    /\ trackerOn = TRUE
    /\ audioReady = TRUE
    /\ intensity = 0
    /\ shapeSounds = 0
    /\ InitEnv(Len(SustainedGesture), 1, 0, 0)
    /\ InitNebula

NextSustained ==
    \/ \E pinch \in {20, 175} :
          /\ obsLeft > 0
          /\ onHandResults(processResults(
              Landmarks(SustainedGesture[Len(SustainedGesture) - obsLeft + 1], CentreTip, pinch)))
    \/ runShapeUpdater
    \/ commitRender

SpecSustained == InitSustained /\ [][NextSustained]_vars

(***************************************************************************)
(* Properties                                                              *)
(***************************************************************************)
\* a step of onHandResults with a detected hand
ObsStep == obsLeft' = obsLeft - 1
\* a click on a shape button
ManualStep == manualLeft' = manualLeft - 1
\* one run of the setCurrentShape updater
UpdaterStep == shapeQueue # <<>> /\ shapeQueue' = Tail(shapeQueue)

\* the finger counts that occur at least n times in the window
Agreeing(buffer, n) == {f \in Fingers : Counts(buffer, f) >= n}

LastN(seq, n) == SubSeq(seq, Max(1, Len(seq) - n + 1), Len(seq))

\* C1: an observation asks for a shape change only if, with it appended, some
\* finger count fills at least 13 places of the window; 12 of 15 never do, and
\* fewer than 13 observations since the window was emptied never do.
C1_Threshold ==
    [][ObsStep =>
          /\ shapeQueue' # shapeQueue =>
                /\ Agreeing(gestureBuffer', 13) # {}
                /\ Len(sinceReset') >= 13
          /\ (Len(gestureBuffer') = 15 /\ Agreeing(gestureBuffer', 13) = {}
                /\ Agreeing(gestureBuffer', 12) # {}) => shapeQueue' = shapeQueue
       ]_vars

\* thirteen 3s have just asked for Saturn
C1_Witness ==
    /\ Len(gestureBuffer) = 13
    /\ Counts(gestureBuffer, 3) = 13
    /\ shapeQueue = <<"SATURN">>

\* C2: the window never holds more than 15 entries and is exactly the last 15
\* detected finger counts since it was emptied, in arrival order.
C2_WindowFifo ==
    /\ Len(gestureBuffer) <= 15
    /\ gestureBuffer = LastN(sinceReset, 15)

\* a 16th observation has pushed the oldest one out
C2_Witness ==
    /\ Len(sinceReset) = 16
    /\ Len(gestureBuffer) = 15
    /\ sinceReset[1] # sinceReset[2]

C4_ResetOnCommit ==
    [][currentShape' # currentShape => gestureBuffer' = <<>> /\ sinceReset' = <<>>]_vars

\* Saturn was committed by thirteen or more observations, which are gone
C4_Witness ==
    /\ currentShape = "SATURN"
    /\ lastFingers = 3
    /\ obsLeft <= MaxObs - 13
    /\ runsLeft = MaxRuns
    /\ manualLeft = MaxManual
    /\ gestureBuffer = <<>>

\* C5: the sustained gesture produces at most one shape-changed event at any
\* time, and once all 15 observations are rendered exactly one, with Saturn
\* current.
C5_CommitOnce ==
    /\ shapeSounds <= 1
    /\ shapeSounds = 1 => currentShape = "SATURN"
    /\ (obsLeft = 0 /\ shapeQueue = <<>> /\ ~rendering /\ unrendered = 0) =>
            (shapeSounds = 1 /\ currentShape = "SATURN")

\* all 15 observations rendered; the commit ran after the 14th observation
C5_Witness ==
    /\ obsLeft = 0 /\ shapeQueue = <<>> /\ ~rendering /\ unrendered = 0
    /\ gestureBuffer = <<2>>
    /\ shapeSounds = 1

\* C6: an updater for the shape that is already current changes nothing; an
\* observation step and a click never change shape or sound themselves; an
\* observation only appends to the window; without agreement it asks for
\* nothing, and with agreement on the current shape every pending request is
\* for the current shape.
C6_NoChange ==
    [][/\ (UpdaterStep /\ Head(shapeQueue) = currentShape) =>
            /\ currentShape' = currentShape
            /\ shapeSounds' = shapeSounds
            /\ gestureBuffer' = gestureBuffer
       /\ ManualStep =>
            /\ currentShape' = currentShape
            /\ shapeSounds' = shapeSounds
            /\ gestureBuffer' = gestureBuffer
       /\ ObsStep =>
            /\ currentShape' = currentShape
            /\ shapeSounds' = shapeSounds
            /\ gestureBuffer' = LastN(Append(gestureBuffer, lastFingers'), 15)
            /\ Agreeing(gestureBuffer', 13) = {} => shapeQueue' = shapeQueue
            /\ \A f \in Agreeing(gestureBuffer', 13) :
                  <<f, currentShape>> \in {<<2, "FLOWER">>, <<3, "SATURN">>,
                                           <<4, "HEART">>, <<5, "FIREWORKS">>}
                  => \A k \in 1..Len(shapeQueue') : shapeQueue'[k] = currentShape
      ]_vars

\* a request for Flower met Flower: the window of 2s is still there
C6_Witness ==
    /\ rendering
    /\ shapeQueue = <<>>
    /\ unrendered > 0
    /\ currentShape = "FLOWER"
    /\ Counts(gestureBuffer, 2) >= 13

(***************************************************************************)
(* Properties of the particle engine                                       *)
(***************************************************************************)
\* a step that is one call of animate from a requested frame
FrameStep == reqIdRef' = reqIdRef + 1 /\ allocations' = allocations

\* the mode the running animation loop was created with
LoopMode == closures[loopGen].mode

\* C7: the position buffer is allocated once and never reset: after the
\* initial fill no step allocates or fills a position array again, and every
\* step that changes a position is a frame of the animation loop.
C7_NeverReset ==
    [][/\ allocations' = allocations
       /\ spawn' = spawn
       /\ (positions' # positions => FrameStep)]_vars

\* C8: when the effects of a render with a new shape run, every target entry
\* is a point of that shape and, unless the init effect runs too, no position
\* changes; every frame integrates toward targets that are all points of the
\* one shape in shapeRef.
C8_Generate ==
    [][/\ (depShape # currentShape /\ depShape' = currentShape) =>
             /\ shapeRef' = currentShape
             /\ \A i \in Particles : targetPositions'[i] \in ShapePoints(currentShape)
             /\ (allocations' = allocations => positions' = positions)
       /\ targetPositions' # targetPositions => depShape' = currentShape \/ allocations' # allocations
       /\ FrameStep => \A i \in Particles : targetPositions[i] \in ShapePoints(shapeRef)]_vars

\* a shape selected by hand has been generated and a frame has run on it
C8_Witness ==
    /\ shapeRef = "HEART"
    /\ depShape = "HEART"
    /\ allocations = 1
    /\ targetPositions[1] # targetPositions[2]
    /\ clock > 0
    /\ manualLeft < MaxInputs

\* C9: every frame is the particle loop with, in mouse mode, active true and
\* attracting exactly when the primary button (button 0) is held, and in
\* camera mode active = detected and attracting = isPinching of the hand
\* sample; an inactive frame applies no interaction term.
C9_Locator ==
    [][FrameStep =>
         LET active == IF LoopMode = "mouse" THEN TRUE ELSE handDataRef.detected
             attracting == IF LoopMode = "mouse" THEN 0 \in buttonsHeld
                           ELSE handDataRef.detected /\ handDataRef.isPinching
             ipt == InteractionPoint(LoopMode, handDataRef, mouseRef, closures[loopGen].aspect)
         IN  \E jitter \in EngineJitters :
                positions' = ParticleLoop(positions, targetPositions, clock', active,
                                          attracting, ipt, jitter)]_vars

\* C10: in a frame with the interaction inactive, on each axis a particle is
\* afterwards no further from its target than before or than 0.5 (on z: than
\* before), and nearer when it was further than the drift and the resolution
\* of the arithmetic; a particle filled onto its target stays within 0.5 of
\* it on x and y and on it on z as long as no hand was seen.
C10_NonDivergence ==
    /\ [](lastFingers = -1 =>
            \A i \in Particles :
               spawn[i] = targetPositions[i] =>
                  /\ Abs(positions[i].x - targetPositions[i].x) <= 50
                  /\ Abs(positions[i].y - targetPositions[i].y) <= 50
                  /\ positions[i].z = targetPositions[i].z)
    /\ [][FrameStep /\ ~IsActive(LoopMode, handDataRef) =>
            \A i \in Particles :
               LET ex == positions[i].x - targetPositions[i].x
                   ey == positions[i].y - targetPositions[i].y
                   ez == positions[i].z - targetPositions[i].z
                   fx == positions'[i].x - targetPositions[i].x
                   fy == positions'[i].y - targetPositions[i].y
                   fz == positions'[i].z - targetPositions[i].z
               IN  /\ Abs(fx) <= Max(Abs(ex), 50)
                   /\ Abs(fy) <= Max(Abs(ey), 50)
                   /\ Abs(fz) <= Abs(ez)
                   /\ Abs(ex) >= 60 => Abs(fx) < Abs(ex)
                   /\ Abs(ey) >= 60 => Abs(fy) < Abs(ey)
                   /\ Abs(ez) >= 10 => Abs(fz) < Abs(ez)]_vars

\* no hand was seen; the first particle was filled onto its target and has
\* drifted, the second was filled away from it and has come nearer
C10_Witness ==
    /\ clock = MaxMorphTime
    /\ lastFingers = -1
    /\ spawn[1] = targetPositions[1]
    /\ positions[1] # targetPositions[1]
    /\ spawn[2] # targetPositions[2]
    /\ Abs(positions[2].x - targetPositions[2].x) < Abs(spawn[2].x - targetPositions[2].x) - 500

(***************************************************************************)
(* Properties of the interaction physics                                   *)
(***************************************************************************)
\* the interaction state the next frame of the running loop computes
FrameActive == IsActive(LoopMode, handDataRef)
FrameAttracting == IsAttracting(LoopMode, handDataRef, isMouseDownRef)
FramePoint == InteractionPoint(LoopMode, handDataRef, mouseRef, closures[loopGen].aspect)

DistSq(p, q) == (p.x - q.x) * (p.x - q.x) + (p.y - q.y) * (p.y - q.y) + (p.z - q.z) * (p.z - q.z)

\* the update of particle i in a frame at the given time without interaction term
NoInteraction(i, time) ==
    MoveParticle(positions[i], targetPositions[i], i, time, FALSE, FALSE, FramePoint,
                 [x |-> 0, y |-> 0, z |-> 0])

JitterRange == -250..250

\* C11: in an attracting frame a particle nearer than 40 to the interaction
\* point is moved toward the point plus a jitter within 2.5 per axis (not
\* toward its shape target), is nearer than 40 afterwards too, and on each
\* axis is no further from the point than before or than 2.5; a particle at
\* 40 or more gets the update without interaction.
C11_Attraction ==
    [][FrameStep /\ FrameActive /\ FrameAttracting =>
         \A i \in Particles :
            LET p == positions[i]
                q == positions'[i]
                c == FramePoint
            IN  IF DistSq(p, c) < 4000 * 4000
                THEN /\ \E j \in JitterRange : q.x = Lerp(p.x, c.x + j)
                     /\ \E j \in JitterRange : q.y = Lerp(p.y, c.y + j)
                     /\ \E j \in JitterRange : q.z = Lerp(p.z, c.z + j)
                     /\ DistSq(q, c) < 4000 * 4000
                     /\ Abs(q.x - c.x) <= Max(Abs(p.x - c.x), 250)
                     /\ Abs(q.y - c.y) <= Max(Abs(p.y - c.y), 250)
                     /\ Abs(q.z - c.z) <= Max(Abs(p.z - c.z), 250)
                ELSE q = NoInteraction(i, clock')]_vars

\* the button is held and a particle filled at distance 10 with a target at
\* distance 39 has been pulled nearer than 10, while another is 40 or more away
C11_Witness ==
    /\ isMouseDownRef
    /\ LoopMode = "mouse"
    /\ clock = MaxMorphTime
    /\ \E i \in Particles :
          /\ spawn[i] = InteractStarts[1]
          /\ targetPositions[i] = Point(2500, 0, 0)
          /\ DistSq(positions[i], FramePoint) < 1000 * 1000
    /\ \E i \in Particles : DistSq(positions[i], FramePoint) >= 4000 * 4000

\* C12: in an active frame that is not attracting, a particle nearer than 25
\* to the interaction point is moved toward its drifted shape target plus
\* 2 * force * (position - point) per axis, force = (25 - d) / 25 in (0, 1],
\* an offset that points away from the point; a particle at 25 or more gets
\* the update without interaction.
C12_Repulsion ==
    [][FrameStep /\ FrameActive /\ ~FrameAttracting =>
         \A i \in Particles :
            LET p == positions[i]
                q == positions'[i]
                c == FramePoint
                t == targetPositions[i]
                d == Sqrt(DistSq(p, c))
                offx == DivRound((p.x - c.x) * (2500 - d) * 2, 2500)
                offy == DivRound((p.y - c.y) * (2500 - d) * 2, 2500)
                offz == DivRound((p.z - c.z) * (2500 - d) * 2, 2500)
            IN  IF DistSq(p, c) < 2500 * 2500
                THEN /\ 0 < 2500 - d /\ 2500 - d <= 2500
                     /\ offx * (p.x - c.x) >= 0
                     /\ offy * (p.y - c.y) >= 0
                     /\ offz * (p.z - c.z) >= 0
                     /\ q.x = Lerp(p.x, t.x + DriftX(clock', i) + offx)
                     /\ q.y = Lerp(p.y, t.y + DriftY(clock', i) + offy)
                     /\ q.z = Lerp(p.z, t.z + offz)
                ELSE q = NoInteraction(i, clock')]_vars

\* no button was pressed: a particle filled at distance 10 has been pushed
\* outward and is still nearer than 25, another is at 25 or more
C12_Witness ==
    /\ ~isMouseDownRef
    /\ LoopMode = "mouse"
    /\ windowLeft = MaxInputs
    /\ clock = MaxMorphTime
    /\ \E i \in Particles :
          /\ spawn[i] = InteractStarts[1]
          /\ DistSq(positions[i], FramePoint) > 1000 * 1000
          /\ DistSq(positions[i], FramePoint) < 2500 * 2500
    /\ \E i \in Particles : DistSq(positions[i], FramePoint) >= 2500 * 2500

(***************************************************************************)
(* Properties of the start-up and of the schedule                          *)
(***************************************************************************)
\* C13: when start-up has ended without a tracker that delivers hand samples
\* (permission denied, window.Hands or window.Camera missing, camera.start()
\* rejected), the interaction mode is, and stays, mouse.
C13_Fallback ==
    startPc = "done" /\ ~trackerOn =>
        interactionMode = "mouse" /\ modeQueue # <<"camera">>

\* C14 as stated: the gesture filter and the regeneration of the targets run
\* inside a tick of the frame loop (or the first tick of a new loop).
C14_FilterInTick ==
    [][gestureBuffer' # gestureBuffer \/ targetPositions' # targetPositions =>
          FrameStep \/ allocations' # allocations]_vars

\* C14 amended: a tick leaves the gesture window, the shape and the targets
\* alone and is the particle loop on the interaction state computed from the
\* refs as they are when it starts; the gesture filter and the shape decision
\* run in steps that move no particle and regenerate no target, and the
\* regeneration runs in the effects after the render and moves no particle
\* unless the init effect runs with it.
C14_TickOrder ==
    [][/\ FrameStep =>
             /\ gestureBuffer' = gestureBuffer
             /\ currentShape' = currentShape
             /\ targetPositions' = targetPositions
             /\ \E jitter \in EngineJitters :
                   positions' = ParticleLoop(positions, targetPositions, clock', FrameActive,
                                             FrameAttracting, FramePoint, jitter)
       /\ (gestureBuffer' # gestureBuffer \/ currentShape' # currentShape) =>
             positions' = positions /\ targetPositions' = targetPositions
       /\ (targetPositions' # targetPositions /\ allocations' = allocations) =>
             positions' = positions /\ depShape' = currentShape]_vars

\* a hand sample went through the gesture filter between ticks, and ticks of
\* the camera loop have run on it
C14_Witness ==
    /\ LoopMode = "camera"
    /\ gestureBuffer # <<>>
    /\ handDataRef.detected
    /\ clock > 0

\* C15: the only requested frame is the latest one of the running loop, so
\* after the cleanup of the init effect no tick of the old loop runs and at
\* most one loop is live; every tick belongs to the running loop; the
\* re-initialization is not part of a tick: it leaves the positions as the
\* first tick of the new loop on the new fill.
C15_Stoppable ==
    /\ [](Mounted => rafPending = {[id |-> reqIdRef, gen |-> loopGen]})
    /\ [][/\ FrameStep => loopGen' = loopGen /\ rafPending' = {[id |-> reqIdRef', gen |-> loopGen]}
          /\ allocations' # allocations =>
                /\ loopGen' = loopGen + 1
                /\ \A f \in rafPending' : f.gen = loopGen'
                /\ \E jitter \in EngineJitters :
                      positions' = Frame(spawn', targetPositions', 0, interactionMode,
                                         windowAspect, handDataRef', mouseRef, isMouseDownRef,
                                         jitter)]_vars

\* the loop of mouse mode was torn down and ticks of the camera loop have run
C15_Witness ==
    /\ loopGen = 2
    /\ allocations = 2
    /\ LoopMode = "camera"
    /\ clock > 0

(***************************************************************************)
(* Particle independence                                                   *)
(***************************************************************************)
\* the processing orders of the particles
Orders == {order \in [1..PARTICLE_COUNT -> Particles] :
              \A j, k \in 1..PARTICLE_COUNT : j # k => order[j] # order[k]}

\* other data for the particles: positions and targets of another frame
OtherPositions == {fill \in InteractFills : fill[1] \in {InteractStarts[1], InteractStarts[6]}}
OtherTargets == {target \in calculateTargetPositions("FLOWER") :
                    \A j, k \in Particles : target[j] = target[k]}

\* array a with the entries of all particles but i taken from b
OthersFrom(i, a, b) == [k \in Particles |-> IF k = i THEN a[k] ELSE b[k]]

\* C16: the frame is the same for every processing order of the particles,
\* and the new position of particle i is the same when the positions and
\* targets of all other particles are replaced by other data.
C16_Independence ==
    [][FrameStep =>
         \E jitter \in EngineJitters :
            /\ \A order \in Orders :
                  positions' = LoopInOrder(order, 1, positions, targetPositions, clock',
                                           FrameActive, FrameAttracting, FramePoint, jitter)
            /\ \A i \in Particles :
                  \A otherPos \in OtherPositions, otherTarget \in OtherTargets :
                     positions'[i] =
                        ParticleLoop(OthersFrom(i, positions, otherPos),
                                     OthersFrom(i, targetPositions, otherTarget), clock',
                                     FrameActive, FrameAttracting, FramePoint, jitter)[i]]_vars

\* frames with repulsion and with attraction have run on particles with
\* different positions and targets
C16_Witness ==
    /\ clock = MaxMorphTime
    /\ isMouseDownRef
    /\ positions[1] # positions[2]
    /\ targetPositions[1] # targetPositions[2]
    /\ \E i \in Particles : DistSq(positions[i], FramePoint) < 2500 * 2500

(***************************************************************************)
(* Properties of the gestures the controls list names                      *)
(***************************************************************************)
\* C17: an observation whose window agrees (13 or more) on 1 finger asks for
\* Sphere when another shape is current, as agreement on 2, 3, 4, 5 asks for
\* Flower, Saturn, Heart, Fireworks.
C17_OneFingerSphere ==
    [][(ObsStep /\ 1 \in Agreeing(gestureBuffer', 13) /\ currentShape # "SPHERE") =>
          shapeQueue' = Append(shapeQueue, "SPHERE")]_vars

\* the tracker delivers a sample without a hand
UndetectedStep == unrendered' = unrendered + 1 /\ ~handQueue'[1].detected

\* C18: a sample without a hand is stored as the next handData and sets the
\* audio intensity to 0 (when there is audio); the gesture window, the pending
\* shape requests, the current shape and everything else of the App stay as
\* they are.
C18_UndetectedSample ==
    [][UndetectedStep =>
          /\ handQueue' = <<NoHand>>
          /\ intensity' = IF audioReady THEN 0 ELSE intensity
          /\ gestureBuffer' = gestureBuffer
          /\ sinceReset' = sinceReset
          /\ shapeQueue' = shapeQueue
          /\ currentShape' = currentShape
          /\ UNCHANGED <<hasStarted, interactionMode, handData, closureShape, modeQueue,
                         rendering, startPc, trackerOn, audioReady, shapeSounds>>]_vars

\* the hand was lost after twelve 3s: the window still holds them and the
\* audio intensity is back to 0
C18_Witness ==
    /\ handQueue = <<NoHand>>
    /\ unrendered > 0
    /\ Len(gestureBuffer) = 12
    /\ Counts(gestureBuffer, 3) = 12
    /\ audioReady
    /\ intensity = 0

====
